---------------------------- MODULE Spec2Model ----------------------------
(***************************************************************************)
(* ANB_FifoSlab: a growable contiguous FIFO byte buffer with a side index  *)
(* of item lengths.  The repository holds two versions of fifoslab.c:      *)
(*   - the length-preserving one (index + pad_index, push_item / pop_item) *)
(*   - the byte-level one (index only, push / peek / pop plus the item     *)
(*     level calls, which report aligned sizes).                           *)
(* Both are modelled; the variable `variant` says which one a behaviour    *)
(* runs.  Every library function is a pure operator from the queue record  *)
(* (and the arguments) to the new queue record and the returned values;    *)
(* the actions apply them to the state.                                    *)
(***************************************************************************)
EXTENDS Integers, Sequences, FiniteSets, TLC

VARIABLES
  variant,   \* "item" (length-preserving fifoslab.c) or "byte" (byte-level fifoslab.c)
  q,         \* struct ANB_FifoSlab
  iter,      \* the caller's ANB_FifoSlabIter_t
  iter_st,   \* caller side: "none" (no iterator), "live", "done" (it returned NULL),
             \* "done_again" (it was called again after that)
  iter_views,\* the (pointer, size) pairs the live iterator has returned so far
  res,       \* the last call: its name, arguments and returned values
  fifo,      \* reference FIFO: payloads pushed and not yet popped, in push order
  src,       \* payload behind each live index entry, oldest first
  fresh,     \* a second queue, created when q was first drained (<<>> before)
  fres,      \* the last call's result on fresh
  npush,     \* number of pushes so far
  stream,    \* byte-level fifoslab.c: the bytes pushed (payload and padding) and
             \* not yet consumed, as the calls' return values account for them
  width      \* bits of size_t in this behaviour

vars == <<variant, q, iter, iter_st, iter_views, res, fifo, src, fresh, fres, npush,
          stream, width>>

---------------------------------------------------------------------------
(* Bounds of the model *)

\* pushes in one behaviour
MaxPushes == 3
\* width of size_t, in bits, in the behaviours that take the sizes to the
\* end of their range
NarrowBits == 8
\* width of size_t in the model, in bits
SizeBits == 16
\* the longest push of the fuzz harness (4096 in the harness)
MaxPushLen == 80

(* Program constants *)

\* _Alignof(max_align_t)
MaxAlign == 16
ANB_FS_INITIAL_INDEX_CAP == 64

SIZE_MAX == 2^width - 1
\* size_t arithmetic wraps
Wrap(x) == x % (SIZE_MAX + 1)
\* (uint8_t) cast
U8(x) == x % 2^8

\* content of memory malloc/realloc returned and nobody wrote yet
UNINIT == 2^8
UNSET == SIZE_MAX + 1

\* a pointer into queue->data is its offset from queue->data; NULL is no offset
NULL == <<>>
Ptr(off) == <<off>>
\* a size_t the callee did not write / wrote
NotWritten == <<>>
Written(v) == <<v>>

(* Inputs *)
InitialSizes == {1, 24}
PayloadLens == {0, 16, 17}
Fill(len, b) == [i \in 1..len |-> b]
\* the k-th push of a behaviour carries bytes of value k
Payloads(k) == {Fill(len, k) : len \in PayloadLens}
\* requested_len of the byte-level peek and pop
PopLens == {0, 16, 24}

---------------------------------------------------------------------------
(* Shared helpers *)

\* ((x) + _Alignof(max_align_t) - 1) & ~(_Alignof(max_align_t) - 1)
\* mutant: lengths are not rounded up
Mutant_ALIGN_UP_identity(x) == x

ANB_FS_ALIGN_UP(x) ==
  LET y == Wrap(x + MaxAlign - 1)
  IN  y - (y % MaxAlign)

\* while (new_size < need) { assert(new_size < SIZE_MAX / 2); new_size *= 2; }
\* the result is <<new_size>>, or <<>> when the assertion fails
\* mutant: the capacity is quadrupled
RECURSIVE Mutant_GrowLoop_by_four(_, _)
Mutant_GrowLoop_by_four(new_size, need) ==
  IF new_size < need
    THEN IF new_size < SIZE_MAX \div 2
           THEN Mutant_GrowLoop_by_four(Wrap(new_size * 4), need)
           ELSE <<>>
    ELSE <<new_size>>

RECURSIVE GrowLoop(_, _)
GrowLoop(new_size, need) ==
  IF new_size < need
    THEN IF new_size < SIZE_MAX \div 2
           THEN GrowLoop(Wrap(new_size * 2), need)
           ELSE <<>>
    ELSE <<new_size>>

\* An allocation is modelled by the values written to it so far: the
\* sequence of cells 0..k-1 (cell i is element i + 1); what malloc/realloc
\* returned and nobody wrote yet is indeterminate (blank), the capacity is
\* kept in the struct (size, index_cap).
Malloc == <<>>

Hi(mem) == Len(mem)

Load(mem, i, blank) == IF i >= 0 /\ i < Len(mem) THEN mem[i + 1] ELSE blank

\* mutant: the new block does not get the old content
Mutant_Realloc_no_copy(mem, n) == <<>>

\* realloc(p, n): the old content up to the smaller size
Realloc(mem, n) == IF n < Len(mem) THEN SubSeq(mem, 1, n) ELSE mem

\* mem[at .. at + Len(vals) - 1] = vals
Store(mem, at, vals, blank) ==
  LET gap  == IF at > Len(mem) THEN [k \in 1..(at - Len(mem)) |-> blank] ELSE <<>>
      head == IF at >= Len(mem) THEN mem \o gap ELSE SubSeq(mem, 1, at)
      rest == IF at + Len(vals) < Len(mem)
                THEN SubSeq(mem, at + Len(vals) + 1, Len(mem))
                ELSE <<>>
  IN  head \o vals \o rest

\* mutant: the padding is not zeroed
Mutant_CopyIn_no_memset(mem, at, data, pad) ==
  Store(mem, at, data, UNINIT)

\* memcpy(dst + at, data, len(data)); memset(dst + at + len, 0, pad)
CopyIn(mem, at, data, pad) ==
  Store(mem, at, data \o [k \in 1..pad |-> 0], UNINIT)

ByteAt(queue, i) == Load(queue.data, i, UNINIT)
\* the n bytes a caller reads through a returned pointer
View(queue, p, n) ==
  IF p = NULL THEN <<>> ELSE [k \in 1..n |-> ByteAt(queue, p[1] + k - 1)]

RECURSIVE SumIndex(_, _, _)
\* for (i = from; i < to; i++) offset += queue->index[i];
SumIndex(queue, from, to) ==
  IF from >= to THEN 0
  ELSE Load(queue.index, from, UNSET) + SumIndex(queue, from + 1, to)


---------------------------------------------------------------------------
(* The length-preserving fifoslab.c: index + pad_index *)

\* the result of a call: returned value, *out_size, the bytes the caller can
\* read through the returned pointer, the iterator after the call, and how
\* the call ended ("none": it returned; "assert": an assertion failed;
\* "segv": a write through a null pointer; "heap": a write past an allocation)
Result(ret, out_size, view, it, fault) ==
  [ret |-> ret, out_size |-> out_size, view |-> view, iter |-> it, fault |-> fault]

ZeroIter == [_item_idx |-> 0, _byte_offset |-> 0]

ANB_fifoslab_create(initial_size) ==
  [data        |-> Malloc,
   write_pos   |-> 0,
   read_pos    |-> 0,
   size        |-> initial_size,
   index       |-> Malloc,
   pad_index   |-> Malloc,
   index_write |-> 0,
   index_read  |-> 0,
   index_cap   |-> ANB_FS_INITIAL_INDEX_CAP]

\* the data buffer part of push_item: grow, memcpy, memset, write_pos += aligned_len
PushData(queue, data) ==
  LET data_len    == Len(data)
      aligned_len == ANB_FS_ALIGN_UP(data_len)
      need        == Wrap(queue.write_pos + aligned_len)
      grown       == IF need > queue.size
                       THEN GrowLoop(queue.size, need)
                       ELSE <<queue.size>>
      pad         == IF aligned_len > data_len THEN aligned_len - data_len ELSE 0
  IN  IF grown = <<>>
        THEN [queue |-> queue, fault |-> "assert"]
      ELSE IF queue.write_pos + data_len + pad > grown[1]
        THEN [queue |-> queue, fault |-> "heap"]
      ELSE
        LET buf == IF need > queue.size
                     THEN Realloc(queue.data, grown[1])
                     ELSE queue.data
        IN  [queue |-> [queue EXCEPT
                          !.data = CopyIn(buf, queue.write_pos, data, pad),
                          !.size = grown[1],
                          !.write_pos = Wrap(queue.write_pos + aligned_len)],
             fault |-> "none"]

\* mutant: the index is grown one push too late
Mutant_IndexCapForPush_late(queue) ==
  IF queue.index_write > queue.index_cap
    THEN Wrap(queue.index_cap * 2)
    ELSE queue.index_cap

\* mutant: the index is grown one push too early
Mutant_IndexCapForPush_early(queue) ==
  IF queue.index_write + 1 >= queue.index_cap
    THEN Wrap(queue.index_cap * 2)
    ELSE queue.index_cap

\* if (queue->index_write >= queue->index_cap) new_cap = queue->index_cap * 2
IndexCapForPush(queue) ==
  IF queue.index_write >= queue.index_cap
    THEN Wrap(queue.index_cap * 2)
    ELSE queue.index_cap

\* mutant: a length that needs no padding gets a full unit of it recorded
Mutant_push_item_pad_full(queue, data) ==
  LET d == PushData(queue, data)
      aligned_len == ANB_FS_ALIGN_UP(Len(data))
      new_cap == IndexCapForPush(queue)
  IN  IF d.fault # "none" THEN d
      ELSE IF queue.index_write >= new_cap
        THEN [queue |-> d.queue, fault |-> "heap"]
      ELSE
        [queue |-> [d.queue EXCEPT
             !.index_cap = new_cap,
             !.pad_index = Store(Realloc(queue.pad_index, new_cap), queue.index_write,
                                 <<U8(MaxAlign - (Len(data) % MaxAlign))>>, UNINIT),
             !.index = Store(Realloc(queue.index, new_cap), queue.index_write,
                             <<aligned_len>>, UNSET),
             !.index_write = Wrap(queue.index_write + 1)],
         fault |-> "none"]

ANB_fifoslab_push_item(queue, data) ==
  LET d == PushData(queue, data)
      aligned_len == ANB_FS_ALIGN_UP(Len(data))
      new_cap == IndexCapForPush(queue)
  IN  IF d.fault # "none" THEN d
      ELSE IF queue.index_write >= new_cap
        THEN [queue |-> d.queue, fault |-> "heap"]
      ELSE
        [queue |-> [d.queue EXCEPT
             !.index_cap = new_cap,
             !.pad_index = Store(Realloc(queue.pad_index, new_cap), queue.index_write,
                                 <<U8(Wrap(aligned_len - Len(data)))>>, UNINIT),
             !.index = Store(Realloc(queue.index, new_cap), queue.index_write,
                             <<aligned_len>>, UNSET),
             !.index_write = Wrap(queue.index_write + 1)],
         fault |-> "none"]

ANB_fifoslab_size(queue) == Wrap(queue.write_pos - queue.read_pos)

ANB_fifoslab_item_count(queue) == Wrap(queue.index_write - queue.index_read)

\* mutant: reports the aligned size, the padding is not subtracted
Mutant_peek_item_aligned(queue, n, has_out) ==
  IF n >= Wrap(queue.index_write - queue.index_read)
    THEN {[ret |-> NULL, out_size |-> Written(0), view |-> <<>>,
           iter |-> [_item_idx |-> 0, _byte_offset |-> 0], fault |-> "none"]}
    ELSE
      LET offset    == Wrap(queue.read_pos
                            + SumIndex(queue, queue.index_read, queue.index_read + n))
          item_size == Load(queue.index, queue.index_read + n, UNSET)
      IN  {[ret |-> Ptr(offset),
            out_size |-> IF has_out THEN Written(item_size) ELSE NotWritten,
            view |-> View(queue, Ptr(offset), item_size),
            iter |-> [_item_idx |-> 0, _byte_offset |-> 0], fault |-> "none"]}

\* has_out: out_size is not a null pointer.  The set of possible outcomes:
\* the write "*out_size = 0" through a null out_size is undefined, it traps
\* or (where address 0 is writable) goes unnoticed
ANB_fifoslab_peek_item(queue, n, has_out) ==
  IF n >= Wrap(queue.index_write - queue.index_read)
    THEN IF has_out
           THEN {Result(NULL, Written(0), <<>>, ZeroIter, "none")}
           ELSE {Result(NULL, NotWritten, <<>>, ZeroIter, "segv"),
                 Result(NULL, NotWritten, <<>>, ZeroIter, "none")}
    ELSE
      LET offset    == Wrap(queue.read_pos
                            + SumIndex(queue, queue.index_read, queue.index_read + n))
          abs_idx   == queue.index_read + n
          item_size == Wrap(Load(queue.index, abs_idx, UNSET)
                            - Load(queue.pad_index, abs_idx, UNINIT))
      IN  {Result(Ptr(offset),
                  IF has_out THEN Written(item_size) ELSE NotWritten,
                  View(queue, Ptr(offset), item_size), ZeroIter, "none")}

\* mutant: the byte offset advances by the item's own length
Mutant_peek_item_iter_unaligned(queue, it, has_out) ==
  LET abs_idx == Wrap(queue.index_read + it._item_idx)
  IN  IF abs_idx >= queue.index_write
        THEN Result(NULL, NotWritten, <<>>, it, "none")
        ELSE
          LET aligned_size == Load(queue.index, abs_idx, UNSET)
              item_size    == Wrap(aligned_size - Load(queue.pad_index, abs_idx, UNINIT))
              ptr          == Ptr(Wrap(queue.read_pos + it._byte_offset))
          IN  Result(ptr,
                     IF has_out THEN Written(item_size) ELSE NotWritten,
                     View(queue, ptr, item_size),
                     [_item_idx    |-> Wrap(it._item_idx + 1),
                      _byte_offset |-> Wrap(it._byte_offset + item_size)],
                     "none")

\* mutant: an exhausted iterator starts over
Mutant_peek_item_iter_wraps(queue, it, has_out) ==
  LET abs_idx == Wrap(queue.index_read + it._item_idx)
  IN  IF abs_idx >= queue.index_write
        THEN Result(NULL, NotWritten, <<>>, ZeroIter, "none")
        ELSE
          LET aligned_size == Load(queue.index, abs_idx, UNSET)
              item_size    == Wrap(aligned_size - Load(queue.pad_index, abs_idx, UNINIT))
              ptr          == Ptr(Wrap(queue.read_pos + it._byte_offset))
          IN  Result(ptr,
                     IF has_out THEN Written(item_size) ELSE NotWritten,
                     View(queue, ptr, item_size),
                     [_item_idx    |-> Wrap(it._item_idx + 1),
                      _byte_offset |-> Wrap(it._byte_offset + aligned_size)],
                     "none")

\* mutant: the step that finds no item is counted too
Mutant_peek_item_iter_counts_null(queue, it, has_out) ==
  LET abs_idx == Wrap(queue.index_read + it._item_idx)
  IN  IF abs_idx >= queue.index_write
        THEN Result(NULL, NotWritten, <<>>,
                    [it EXCEPT !._item_idx = Wrap(it._item_idx + 1)], "none")
        ELSE
          LET aligned_size == Load(queue.index, abs_idx, UNSET)
              item_size    == Wrap(aligned_size - Load(queue.pad_index, abs_idx, UNINIT))
              ptr          == Ptr(Wrap(queue.read_pos + it._byte_offset))
          IN  Result(ptr,
                     IF has_out THEN Written(item_size) ELSE NotWritten,
                     View(queue, ptr, item_size),
                     [_item_idx    |-> Wrap(it._item_idx + 1),
                      _byte_offset |-> Wrap(it._byte_offset + aligned_size)],
                     "none")

ANB_fifoslab_peek_item_iter(queue, it, has_out) ==
  LET abs_idx == Wrap(queue.index_read + it._item_idx)
  IN  IF abs_idx >= queue.index_write
        THEN Result(NULL, NotWritten, <<>>, it, "none")
        ELSE
          LET aligned_size == Load(queue.index, abs_idx, UNSET)
              item_size    == Wrap(aligned_size - Load(queue.pad_index, abs_idx, UNINIT))
              ptr          == Ptr(Wrap(queue.read_pos + it._byte_offset))
          IN  Result(ptr,
                     IF has_out THEN Written(item_size) ELSE NotWritten,
                     View(queue, ptr, item_size),
                     [_item_idx    |-> Wrap(it._item_idx + 1),
                      _byte_offset |-> Wrap(it._byte_offset + aligned_size)],
                     "none")

\* mutant: only the byte cursors are reset
Mutant_DrainReset_bytes_only(queue) ==
  IF queue.read_pos = queue.write_pos
    THEN [queue EXCEPT !.read_pos = 0, !.write_pos = 0]
    ELSE queue

\* mutant: nothing is reset
Mutant_DrainReset_never(queue) == queue

\* mutant: the reset also gives the allocations back
Mutant_DrainReset_shrinks(queue) ==
  IF queue.read_pos = queue.write_pos
    THEN [queue EXCEPT !.read_pos = 0, !.write_pos = 0,
                       !.index_read = 0, !.index_write = 0,
                       !.size = 1, !.data = Malloc,
                       !.index_cap = ANB_FS_INITIAL_INDEX_CAP]
    ELSE queue

\* mutant: when data remains it is moved to the start of the buffer
Mutant_DrainReset_compacts(queue) ==
  IF queue.read_pos = queue.write_pos
    THEN [queue EXCEPT !.read_pos = 0, !.write_pos = 0,
                       !.index_read = 0, !.index_write = 0]
    ELSE [queue EXCEPT !.read_pos = 0,
                       !.write_pos = queue.write_pos - queue.read_pos,
                       !.data = SubSeq(queue.data, queue.read_pos + 1,
                                       Len(queue.data))]

\* mutant: only the index cursors are reset
Mutant_DrainReset_index_only(queue) ==
  IF queue.read_pos = queue.write_pos
    THEN [queue EXCEPT !.index_read = 0, !.index_write = 0]
    ELSE queue

\* if (queue->read_pos == queue->write_pos) reset everything
DrainReset(queue) ==
  IF queue.read_pos = queue.write_pos
    THEN [queue EXCEPT !.read_pos = 0, !.write_pos = 0,
                       !.index_read = 0, !.index_write = 0]
    ELSE queue

\* mutant: the empty queue is not checked for
Mutant_pop_item_unguarded(queue) ==
  LET idx          == queue.index_read
      aligned_size == Load(queue.index, idx, UNSET)
      item_size    == Wrap(aligned_size - Load(queue.pad_index, idx, UNINIT))
  IN  [queue |-> [queue EXCEPT
                    !.index_read = Wrap(idx + 1),
                    !.read_pos = Wrap(queue.read_pos + aligned_size)],
       ret   |-> item_size]

ANB_fifoslab_pop_item(queue) ==
  IF queue.index_read >= queue.index_write
    THEN [queue |-> queue, ret |-> 0]
    ELSE
      LET idx          == queue.index_read
          aligned_size == Load(queue.index, idx, UNSET)
          item_size    == Wrap(aligned_size - Load(queue.pad_index, idx, UNINIT))
      IN  [queue |-> DrainReset([queue EXCEPT
                                   !.index_read = Wrap(idx + 1),
                                   !.read_pos = Wrap(queue.read_pos + aligned_size)]),
           ret   |-> item_size]

---------------------------------------------------------------------------
(* The byte-level fifoslab.c: index only, sizes reported are aligned sizes *)

ANB_fifoslab_create_raw(initial_size) ==
  [data        |-> Malloc,
   write_pos   |-> 0,
   read_pos    |-> 0,
   size        |-> initial_size,
   index       |-> Malloc,
   index_write |-> 0,
   index_read  |-> 0,
   index_cap   |-> ANB_FS_INITIAL_INDEX_CAP]

ANB_fifoslab_push(queue, data) ==
  LET d == PushData(queue, data)
      aligned_len == ANB_FS_ALIGN_UP(Len(data))
      new_cap == IndexCapForPush(queue)
  IN  IF d.fault # "none" THEN d
      ELSE IF queue.index_write >= new_cap
        THEN [queue |-> d.queue, fault |-> "heap"]
      ELSE
        [queue |-> [d.queue EXCEPT
             !.index_cap = new_cap,
             !.index = Store(Realloc(queue.index, new_cap), queue.index_write,
                             <<aligned_len>>, UNSET),
             !.index_write = Wrap(queue.index_write + 1)],
         fault |-> "none"]

\* mutant: counts from the start of the buffer
Mutant_peek_size_from_start(queue) == queue.write_pos

ANB_fifoslab_peek_size(queue) == Wrap(queue.write_pos - queue.read_pos)

\* mutant: exactly the live bytes are not enough
Mutant_peek_off_by_one(queue, requested_len) ==
  IF requested_len = 0 \/ requested_len >= Wrap(queue.write_pos - queue.read_pos)
    THEN NULL
    ELSE Ptr(queue.read_pos)

ANB_fifoslab_peek(queue, requested_len) ==
  IF requested_len = 0 \/ requested_len > Wrap(queue.write_pos - queue.read_pos)
    THEN NULL
    ELSE Ptr(queue.read_pos)

\* mutant: a partial pop leaves the entry's stored length alone
RECURSIVE Mutant_PopIndex_no_shrink(_, _)
Mutant_PopIndex_no_shrink(queue, remaining) ==
  IF remaining > 0 /\ queue.index_read < queue.index_write
    THEN LET item_size == Load(queue.index, queue.index_read, UNSET)
         IN  IF remaining >= item_size
               THEN Mutant_PopIndex_no_shrink(
                      [queue EXCEPT !.index_read = Wrap(queue.index_read + 1)],
                      remaining - item_size)
               ELSE queue
    ELSE queue

\* mutant: an entry that is consumed in part is retired
RECURSIVE Mutant_PopIndex_retires_partial(_, _)
Mutant_PopIndex_retires_partial(queue, remaining) ==
  IF remaining > 0 /\ queue.index_read < queue.index_write
    THEN LET item_size == Load(queue.index, queue.index_read, UNSET)
         IN  Mutant_PopIndex_retires_partial(
               [queue EXCEPT !.index_read = Wrap(queue.index_read + 1)],
               IF remaining >= item_size THEN remaining - item_size ELSE 0)
    ELSE queue

\* while (remaining > 0 && index_read < index_write): consume whole items,
\* reduce a partial one
RECURSIVE PopIndex(_, _)
PopIndex(queue, remaining) ==
  IF remaining > 0 /\ queue.index_read < queue.index_write
    THEN LET item_size == Load(queue.index, queue.index_read, UNSET)
         IN  IF remaining >= item_size
               THEN PopIndex([queue EXCEPT !.index_read = Wrap(queue.index_read + 1)],
                             remaining - item_size)
               ELSE [queue EXCEPT !.index = Store(queue.index, queue.index_read,
                                                  <<Wrap(item_size - remaining)>>, UNSET)]
    ELSE queue

\* mutant: consumes without asking peek whether the bytes are there
Mutant_pop_unguarded(queue, requested_len) ==
  [queue |-> DrainReset(
               PopIndex([queue EXCEPT
                           !.read_pos = Wrap(queue.read_pos + requested_len)],
                        requested_len)),
   ret   |-> requested_len]

ANB_fifoslab_pop(queue, requested_len) ==
  IF ANB_fifoslab_peek(queue, requested_len) = NULL
    THEN [queue |-> queue, ret |-> 0]
    ELSE [queue |-> DrainReset(
                      PopIndex([queue EXCEPT
                                  !.read_pos = Wrap(queue.read_pos + requested_len)],
                               requested_len)),
          ret   |-> requested_len]

ANB_fifoslab_item_count_raw(queue) == Wrap(queue.index_write - queue.index_read)

\* mutant: reports the size of the first live item for every n
Mutant_peek_item_raw_first_size(queue, n, has_out) ==
  IF n >= Wrap(queue.index_write - queue.index_read)
    THEN {Result(NULL, NotWritten, <<>>, ZeroIter, "none")}
    ELSE
      LET offset    == Wrap(queue.read_pos
                            + SumIndex(queue, queue.index_read, queue.index_read + n))
          item_size == Load(queue.index, queue.index_read, UNSET)
      IN  {Result(Ptr(offset),
                  IF has_out THEN Written(item_size) ELSE NotWritten,
                  View(queue, Ptr(offset), item_size), ZeroIter, "none")}

\* mutant: the range check lets n = item count through
Mutant_peek_item_raw_off_by_one(queue, n, has_out) ==
  IF n > Wrap(queue.index_write - queue.index_read)
    THEN {Result(NULL, NotWritten, <<>>, ZeroIter, "none")}
    ELSE
      LET offset    == Wrap(queue.read_pos
                            + SumIndex(queue, queue.index_read, queue.index_read + n))
          item_size == Load(queue.index, queue.index_read + n, 0)
      IN  {Result(Ptr(offset),
                  IF has_out THEN Written(item_size) ELSE NotWritten,
                  View(queue, Ptr(offset), item_size), ZeroIter, "none")}

\* out-of-range n: NULL, *out_size is left alone
ANB_fifoslab_peek_item_raw(queue, n, has_out) ==
  IF n >= Wrap(queue.index_write - queue.index_read)
    THEN {Result(NULL, NotWritten, <<>>, ZeroIter, "none")}
    ELSE
      LET offset    == Wrap(queue.read_pos
                            + SumIndex(queue, queue.index_read, queue.index_read + n))
          item_size == Load(queue.index, queue.index_read + n, UNSET)
      IN  {Result(Ptr(offset),
                  IF has_out THEN Written(item_size) ELSE NotWritten,
                  View(queue, Ptr(offset), item_size), ZeroIter, "none")}

\* mutant: the byte offset is taken from the start of the buffer
Mutant_peek_item_iter_raw_from_start(queue, it, has_out) ==
  LET abs_idx == Wrap(queue.index_read + it._item_idx)
  IN  IF abs_idx >= queue.index_write
        THEN Result(NULL, NotWritten, <<>>, it, "none")
        ELSE
          LET item_size == Load(queue.index, abs_idx, UNSET)
              ptr       == Ptr(it._byte_offset)
          IN  Result(ptr,
                     IF has_out THEN Written(item_size) ELSE NotWritten,
                     View(queue, ptr, item_size),
                     [_item_idx    |-> Wrap(it._item_idx + 1),
                      _byte_offset |-> Wrap(it._byte_offset + item_size)],
                     "none")

ANB_fifoslab_peek_item_iter_raw(queue, it, has_out) ==
  LET abs_idx == Wrap(queue.index_read + it._item_idx)
  IN  IF abs_idx >= queue.index_write
        THEN Result(NULL, NotWritten, <<>>, it, "none")
        ELSE
          LET item_size == Load(queue.index, abs_idx, UNSET)
              ptr       == Ptr(Wrap(queue.read_pos + it._byte_offset))
          IN  Result(ptr,
                     IF has_out THEN Written(item_size) ELSE NotWritten,
                     View(queue, ptr, item_size),
                     [_item_idx    |-> Wrap(it._item_idx + 1),
                      _byte_offset |-> Wrap(it._byte_offset + item_size)],
                     "none")

ANB_fifoslab_pop_item_raw(queue) ==
  IF queue.index_read >= queue.index_write
    THEN [queue |-> queue, ret |-> 0]
    ELSE
      LET item_size == Load(queue.index, queue.index_read, UNSET)
      IN  [queue |-> DrainReset([queue EXCEPT
                                   !.index_read = Wrap(queue.index_read + 1),
                                   !.read_pos = Wrap(queue.read_pos + item_size)]),
           ret   |-> item_size]

---------------------------------------------------------------------------
(* The caller: one call at a time on one queue (the structure is single     *)
(* threaded by contract).                                                   *)

\* what a call leaves behind: its name and arguments, and its Result
Done(op, arg, r) ==
  [op |-> op, arg |-> arg, ret |-> r.ret, out_size |-> r.out_size,
   view |-> r.view, iter |-> r.iter, fault |-> r.fault]

Returned(ret) == Result(ret, NotWritten, <<>>, ZeroIter, "none")

Create(v, initial_size) ==
  IF v = "item" THEN ANB_fifoslab_create(initial_size)
                ELSE ANB_fifoslab_create_raw(initial_size)

ItemCount(v, queue) ==
  IF v = "item" THEN ANB_fifoslab_item_count(queue)
                ELSE ANB_fifoslab_item_count_raw(queue)

LiveBytes(v, queue) ==
  IF v = "item" THEN ANB_fifoslab_size(queue) ELSE ANB_fifoslab_peek_size(queue)

PeekItemOf(v, queue, n, has_out) ==
  IF v = "item" THEN ANB_fifoslab_peek_item(queue, n, has_out)
                ELSE ANB_fifoslab_peek_item_raw(queue, n, has_out)

IterNextOf(v, queue, it, has_out) ==
  IF v = "item" THEN ANB_fifoslab_peek_item_iter(queue, it, has_out)
                ELSE ANB_fifoslab_peek_item_iter_raw(queue, it, has_out)

\* mutant: size() forgets what has been consumed
Mutant_Call_size_rewinds(v, queue, it, c) ==
  CASE c.op = "push" ->
         LET r == IF v = "item" THEN ANB_fifoslab_push_item(queue, c.data)
                                ELSE ANB_fifoslab_push(queue, c.data)
         IN  {[queue |-> r.queue,
               res   |-> Done("push", <<c.data>>,
                              Result(<<>>, NotWritten, <<>>, ZeroIter, r.fault))]}
    [] c.op = "pop_item" ->
         LET r == IF v = "item" THEN ANB_fifoslab_pop_item(queue)
                                ELSE ANB_fifoslab_pop_item_raw(queue)
         IN  {[queue |-> r.queue, res |-> Done("pop_item", <<>>, Returned(<<r.ret>>))]}
    [] c.op = "pop" ->
         LET r == ANB_fifoslab_pop(queue, c.n)
         IN  {[queue |-> r.queue, res |-> Done("pop", <<c.n>>, Returned(<<r.ret>>))]}
    [] c.op = "peek" ->
         LET ptr == ANB_fifoslab_peek(queue, c.n)
         IN  {[queue |-> queue,
               res   |-> Done("peek", <<c.n>>,
                              Result(ptr, NotWritten, View(queue, ptr, c.n),
                                     ZeroIter, "none"))]}
    [] c.op = "peek_item" ->
         {[queue |-> queue, res |-> Done("peek_item", <<c.n, c.has_out>>, r)] :
            r \in PeekItemOf(v, queue, c.n, c.has_out)}
    [] c.op = "size" ->
         {[queue |-> [queue EXCEPT !.read_pos = 0],
           res   |-> Done("size", <<>>, Returned(<<LiveBytes(v, queue)>>))]}
    [] c.op = "item_count" ->
         {[queue |-> queue,
           res   |-> Done("item_count", <<>>, Returned(<<ItemCount(v, queue)>>))]}
    [] c.op = "iter_init" ->
         {[queue |-> queue, res |-> Done("iter_init", <<>>, Returned(<<>>))]}
    [] c.op = "peek_item_iter" ->
         {[queue |-> queue,
           res   |-> Done("peek_item_iter", <<c.has_out>>,
                          IterNextOf(v, queue, it, c.has_out))]}

\* the possible outcomes of call c of version v on queue: the queue after it
\* and what it returned
Call(v, queue, it, c) ==
  CASE c.op = "push" ->
         LET r == IF v = "item" THEN ANB_fifoslab_push_item(queue, c.data)
                                ELSE ANB_fifoslab_push(queue, c.data)
         IN  {[queue |-> r.queue,
               res   |-> Done("push", <<c.data>>,
                              Result(<<>>, NotWritten, <<>>, ZeroIter, r.fault))]}
    [] c.op = "pop_item" ->
         LET r == IF v = "item" THEN ANB_fifoslab_pop_item(queue)
                                ELSE ANB_fifoslab_pop_item_raw(queue)
         IN  {[queue |-> r.queue, res |-> Done("pop_item", <<>>, Returned(<<r.ret>>))]}
    [] c.op = "pop" ->
         LET r == ANB_fifoslab_pop(queue, c.n)
         IN  {[queue |-> r.queue, res |-> Done("pop", <<c.n>>, Returned(<<r.ret>>))]}
    [] c.op = "peek" ->
         LET ptr == ANB_fifoslab_peek(queue, c.n)
         IN  {[queue |-> queue,
               res   |-> Done("peek", <<c.n>>,
                              Result(ptr, NotWritten, View(queue, ptr, c.n),
                                     ZeroIter, "none"))]}
    [] c.op = "peek_item" ->
         {[queue |-> queue, res |-> Done("peek_item", <<c.n, c.has_out>>, r)] :
            r \in PeekItemOf(v, queue, c.n, c.has_out)}
    [] c.op = "size" ->
         {[queue |-> queue, res |-> Done("size", <<>>, Returned(<<LiveBytes(v, queue)>>))]}
    [] c.op = "item_count" ->
         {[queue |-> queue,
           res   |-> Done("item_count", <<>>, Returned(<<ItemCount(v, queue)>>))]}
    [] c.op = "iter_init" ->
         {[queue |-> queue, res |-> Done("iter_init", <<>>, Returned(<<>>))]}
    [] c.op = "peek_item_iter" ->
         {[queue |-> queue,
           res   |-> Done("peek_item_iter", <<c.has_out>>,
                          IterNextOf(v, queue, it, c.has_out))]}

Drained(v, queue) == ItemCount(v, queue) = 0 /\ LiveBytes(v, queue) = 0

\* s without its first n elements
Drop(s, n) == IF n >= Len(s) THEN <<>> ELSE SubSeq(s, n + 1, Len(s))

\* the least multiple of the alignment unit that is >= n
RoundUp(n) == ((n + MaxAlign - 1) \div MaxAlign) * MaxAlign

\* a payload followed by zero bytes up to the next multiple of the alignment unit
Padded(data) == data \o [k \in 1..(RoundUp(Len(data)) - Len(data)) |-> 0]

\* the payloads behind the live entries after a call that left k entries
KeepLast(s, k) == IF k >= Len(s) THEN s ELSE SubSeq(s, Len(s) - k + 1, Len(s))

\* the same call on the second queue, once there is one
Shadow(c, o) ==
  IF fresh = <<>>
    THEN IF npush > 0 /\ o.res.fault = "none" /\ Drained(variant, o.queue)
                      /\ ~Drained(variant, q)
           THEN /\ fresh' = <<Create(variant, o.queue.size)>>
                /\ fres' = o.res
           ELSE /\ fresh' = <<>>
                /\ fres' = o.res
    ELSE LET same == {f \in Call(variant, fresh[1], iter, c) :
                        f.res.fault = o.res.fault}
         IN  IF same = {}
               THEN /\ fresh' = fresh
                    /\ fres' = Done("diverged", <<>>, Returned(<<>>))
               ELSE LET f == CHOOSE g \in same : TRUE
                    IN  /\ fresh' = <<f.queue>>
                        /\ fres' = f.res

\* the program has not been ended by a fault
Ok == res.fault = "none"

\* a call other than an iterator step: the caller's iterator, if any, is over
Run(c) ==
  /\ \E o \in Call(variant, q, iter, c) :
       /\ q' = o.queue
       /\ res' = o.res
       /\ Shadow(c, o)
       /\ src' = IF c.op = "push" /\ o.res.fault = "none"
                   THEN Append(src, c.data)
                   ELSE KeepLast(src, ItemCount(variant, o.queue))
       /\ fifo' = IF variant # "item" \/ o.res.fault # "none" THEN fifo
                  ELSE IF c.op = "push" THEN Append(fifo, c.data)
                  ELSE IF c.op = "pop_item" /\ fifo # <<>> THEN Tail(fifo)
                  ELSE fifo
       /\ stream' = IF variant # "byte" \/ o.res.fault # "none" THEN stream
                    ELSE IF c.op = "push" THEN stream \o Padded(c.data)
                    ELSE IF c.op \in {"pop", "pop_item"} THEN Drop(stream, o.res.ret[1])
                    ELSE stream
  /\ npush' = IF c.op = "push" THEN npush + 1 ELSE npush
  /\ iter' = ZeroIter
  /\ iter_st' = IF c.op = "iter_init" THEN "live" ELSE "none"
  /\ iter_views' = <<>>
  /\ UNCHANGED <<variant, width>>

Push ==
  /\ Ok
  /\ npush < MaxPushes
  /\ \E data \in Payloads(npush + 1) : Run([op |-> "push", data |-> data])

PopItem ==
  /\ Ok
  /\ Run([op |-> "pop_item"])

Pop ==
  /\ Ok
  /\ variant = "byte"
  /\ \E n \in PopLens : Run([op |-> "pop", n |-> n])

Peek ==
  /\ Ok
  /\ variant = "byte"
  /\ \E n \in PopLens : Run([op |-> "peek", n |-> n])

PeekItem ==
  /\ Ok
  /\ \E n \in 0..ItemCount(variant, q), has_out \in BOOLEAN :
       Run([op |-> "peek_item", n |-> n, has_out |-> has_out])

Size ==
  /\ Ok
  /\ Run([op |-> "size"])

Count ==
  /\ Ok
  /\ Run([op |-> "item_count"])

\* ANB_FifoSlabIter_t iter = {0};
IterInit ==
  /\ Ok
  /\ Run([op |-> "iter_init"])

\* one step of the caller's loop over a live iterator, not interleaved with
\* any other call
IterNext ==
  /\ Ok
  /\ iter_st \in {"live", "done", "done_again"}
  /\ \E o \in Call(variant, q, iter, [op |-> "peek_item_iter", has_out |-> TRUE]) :
       /\ res' = o.res
       /\ Shadow([op |-> "peek_item_iter", has_out |-> TRUE], o)
       /\ iter' = o.res.iter
       /\ iter_st' = IF iter_st = "live"
                        THEN (IF o.res.ret = NULL THEN "done" ELSE "live")
                        ELSE "done_again"
       /\ iter_views' = IF o.res.ret = NULL THEN iter_views
                        ELSE Append(iter_views, <<o.res.ret, o.res.out_size>>)
  /\ UNCHANGED <<variant, q, fifo, src, npush, stream, width>>

Init ==
  /\ width = SizeBits
  /\ variant \in {"item", "byte"}
  /\ \E initial_size \in InitialSizes :
       /\ q = Create(variant, initial_size)
       /\ res = Done("create", <<initial_size>>, Returned(<<>>))
  /\ fres = res
  /\ iter = ZeroIter
  /\ iter_st = "none"
  /\ iter_views = <<>>
  /\ fifo = <<>>
  /\ src = <<>>
  /\ fresh = <<>>
  /\ npush = 0
  /\ stream = <<>>

Next ==
  \/ Push
  \/ PopItem
  \/ Pop
  \/ Peek
  \/ PeekItem
  \/ Size
  \/ Count
  \/ IterInit
  \/ IterNext

Spec == Init /\ [][Next]_vars

(* A queue that has been in use: WarmItems pushes and then pop_item calls
   that leave one or two of the items, so that the next pushes take the
   index past its initial capacity. *)
WarmItems == ANB_FS_INITIAL_INDEX_CAP - 1
WarmLeft == {0, 1, 2}
WarmPayload == Fill(MaxAlign, 0)

PushOf(v, queue, data) ==
  IF v = "item" THEN ANB_fifoslab_push_item(queue, data)
                ELSE ANB_fifoslab_push(queue, data)

PopItemOf(v, queue) ==
  IF v = "item" THEN ANB_fifoslab_pop_item(queue)
                ELSE ANB_fifoslab_pop_item_raw(queue)

\* `pushes` calls of push with WarmPayload, one after the other; the first
\* half is evaluated before the second is started (the capacity never shrinks)
RECURSIVE Warm(_, _, _)
Warm(v, queue, pushes) ==
  IF pushes = 0 THEN queue
  ELSE IF pushes = 1 THEN PushOf(v, queue, WarmPayload).queue
  ELSE LET half == Warm(v, queue, pushes \div 2)
       IN  IF half.index_cap >= ANB_FS_INITIAL_INDEX_CAP
             THEN Warm(v, half, pushes - pushes \div 2)
             ELSE half

\* `pops` calls of pop_item, one after the other, in the same way
RECURSIVE Cool(_, _, _)
Cool(v, queue, pops) ==
  IF pops = 0 THEN queue
  ELSE IF pops = 1 THEN PopItemOf(v, queue).queue
  ELSE LET half == Cool(v, queue, pops \div 2)
       IN  IF half.index_cap >= ANB_FS_INITIAL_INDEX_CAP
             THEN Cool(v, half, pops - pops \div 2)
             ELSE half

InitWarm ==
  /\ width = SizeBits
  /\ variant \in {"item", "byte"}
  /\ \E initial_size \in InitialSizes, left \in WarmLeft :
       /\ q = IF left = 0 THEN Create(variant, initial_size)
              ELSE Cool(variant,
                        Warm(variant, Create(variant, initial_size), WarmItems),
                        WarmItems - left)
       /\ res = Done("create", <<initial_size>>, Returned(<<>>))
       /\ src = [i \in 1..left |-> WarmPayload]
       /\ fifo = IF variant = "item" THEN src ELSE <<>>
       /\ stream = IF variant = "byte" THEN [i \in 1..(left * MaxAlign) |-> 0] ELSE <<>>
  /\ fres = res
  /\ iter = ZeroIter
  /\ iter_st = "none"
  /\ iter_views = <<>>
  /\ fresh = <<>>
  /\ npush = 0

NextWarm ==
  \/ Push
  \/ PopItem
  \/ Pop

SpecWarm == InitWarm /\ [][NextWarm]_vars

(* A machine with a narrow size_t, where the pushes of a behaviour take
   write_pos and the capacity to the end of the range of size_t. *)
NarrowSizes == {1, 24, 2^(width - 1)}
NarrowLens == {16, 2^(width - 2), 2^(width - 1) - MaxAlign, SIZE_MAX - 5}

PushNarrow ==
  /\ Ok
  /\ npush < MaxPushes
  /\ \E len \in NarrowLens : Run([op |-> "push", data |-> Fill(len, npush + 1)])

InitNarrow ==
  /\ width = NarrowBits
  /\ variant \in {"item", "byte"}
  /\ \E initial_size \in NarrowSizes :
       /\ q = Create(variant, initial_size)
       /\ res = Done("create", <<initial_size>>, Returned(<<>>))
  /\ fres = res
  /\ iter = ZeroIter
  /\ iter_st = "none"
  /\ iter_views = <<>>
  /\ fifo = <<>>
  /\ src = <<>>
  /\ fresh = <<>>
  /\ npush = 0
  /\ stream = <<>>

NextNarrow ==
  \/ PushNarrow
  \/ PopItem
  \/ Pop

SpecNarrow == InitNarrow /\ [][NextNarrow]_vars

---------------------------------------------------------------------------
(* Calls that break a precondition: a null queue pointer, a null data
   pointer, an initial size of 0.  A handle is NULL or <<queue>>.          *)

\* the call ended in a failed assertion
Aborted == Result(<<>>, NotWritten, <<>>, ZeroIter, "assert")

\* assert(queue != NULL); as the first statement of a function
AssertQueue(h, r) == IF h = NULL THEN Aborted ELSE r

\* void destroy(queue) { if (queue) { free ... } }
ANB_fifoslab_destroy(h) == Returned(<<>>)

\* mutant: peek asserts on a null queue like the other calls do
Mutant_PeekOn_asserts(h, requested_len) ==
  IF h = NULL THEN Aborted
              ELSE Returned(ANB_fifoslab_peek(h[1], requested_len))

\* if (queue == NULL || requested_len == 0 || ...) return NULL;
PeekOn(h, requested_len) ==
  IF h = NULL THEN Returned(NULL)
              ELSE Returned(ANB_fifoslab_peek(h[1], requested_len))

\* data = ANB_fifoslab_peek(queue, requested_len); if (data == NULL) return 0;
PopOn(h, requested_len) ==
  LET data == PeekOn(h, requested_len)
  IN  IF data.fault # "none" THEN data
      ELSE IF data.ret = NULL THEN Returned(<<0>>)
      ELSE Returned(<<ANB_fifoslab_pop(h[1], requested_len).ret>>)

\* the public functions of version v
Functions(v) ==
  IF v = "item"
    THEN {"destroy", "push", "size", "item_count", "peek_item",
          "peek_item_iter", "pop_item"}
    ELSE {"destroy", "push", "size", "peek", "pop", "item_count", "peek_item",
          "peek_item_iter", "pop_item"}

\* function op of version v called on handle h (other arguments valid);
\* with a live handle every function but peek and pop is the one of Call
CallOn(v, h, op) ==
  CASE op = "destroy" -> ANB_fifoslab_destroy(h)
    [] op = "peek"    -> PeekOn(h, MaxAlign)
    [] op = "pop"     -> PopOn(h, MaxAlign)
    [] OTHER          -> AssertQueue(h, Returned(<<>>))

\* push called with data == NULL: assert(queue != NULL); assert(data != NULL);
PushNullData(h) == AssertQueue(h, Aborted)

\* create: assert(initial_size > 0);
CreateChecked(initial_size) == IF initial_size > 0 THEN Returned(<<>>) ELSE Aborted

\* the record of a call that broke the precondition `bad`
BadDone(op, bad, r) ==
  [op |-> op, arg |-> <<>>, ret |-> r.ret, out_size |-> r.out_size,
   view |-> r.view, iter |-> r.iter, fault |-> r.fault, bad |-> bad]

Bad(op, bad, r) ==
  /\ res' = BadDone(op, bad, r)
  /\ UNCHANGED <<variant, q, iter, iter_st, iter_views, fifo, src, fresh, fres,
                 npush, stream, width>>

NullHandle ==
  /\ Ok
  /\ \E op \in Functions(variant) : Bad(op, "queue", CallOn(variant, NULL, op))

NullData ==
  /\ Ok
  /\ Bad("push", "data", PushNullData(<<q>>))

CreateZero ==
  /\ Ok
  /\ Bad("create", "initial_size", CreateChecked(0))

NextNull ==
  \/ Push
  \/ PopItem
  \/ NullHandle
  \/ NullData
  \/ CreateZero

SpecNull == Init /\ [][NextNull]_vars

---------------------------------------------------------------------------
(* The fuzz harness: a byte-level queue created with capacity 64 and the
   eight commands of LLVMFuzzerTestOneInput.  The harness caps a push at
   4096 bytes; the model caps it at MaxPushLen.                            *)

FuzzCapacity == 64

\* len of a push command: 1 .. cap (len == 0 is skipped)
FuzzPushLens == {17, MaxPushLen}

\* len of a pop or peek command (uint16_t), idx of a peek_item command (uint8_t)
FuzzReadLens == {0, MaxAlign + 8, 2^16 - 1}
FuzzIndices == {0, 1, 2^8 - 1}

\* the input ended with the length of a push: len is cut to the bytes left,
\* none, the push is made with data_len 0 and the loop ends
FuzzDone == res.op = "push" /\ res.arg[1] = <<>>

FuzzPush ==
  /\ Ok /\ ~FuzzDone /\ iter_st # "live"
  /\ npush < MaxPushes
  /\ \E len \in FuzzPushLens : Run([op |-> "push", data |-> Fill(len, npush + 1)])

FuzzPushCut ==
  /\ Ok /\ ~FuzzDone /\ iter_st # "live"
  /\ npush < MaxPushes
  /\ Run([op |-> "push", data |-> <<>>])

FuzzPop ==
  /\ Ok /\ ~FuzzDone /\ iter_st # "live"
  /\ \E n \in FuzzReadLens : Run([op |-> "pop", n |-> n])

FuzzPopItem ==
  /\ Ok /\ ~FuzzDone /\ iter_st # "live"
  /\ Run([op |-> "pop_item"])

FuzzPeek ==
  /\ Ok /\ ~FuzzDone /\ iter_st # "live"
  /\ \E n \in FuzzReadLens : Run([op |-> "peek", n |-> n])

FuzzPeekItem ==
  /\ Ok /\ ~FuzzDone /\ iter_st # "live"
  /\ \E idx \in FuzzIndices : Run([op |-> "peek_item", n |-> idx, has_out |-> TRUE])

FuzzPeekSize ==
  /\ Ok /\ ~FuzzDone /\ iter_st # "live"
  /\ Run([op |-> "size"])

FuzzItemCount ==
  /\ Ok /\ ~FuzzDone /\ iter_st # "live"
  /\ Run([op |-> "item_count"])

\* ANB_FifoSlabIter_t iter = {0};
FuzzIterInit ==
  /\ Ok /\ ~FuzzDone /\ iter_st # "live"
  /\ Run([op |-> "iter_init"])

\* while ((p = ANB_fifoslab_peek_item_iter(q, &iter, &item_size)) != NULL)
FuzzIterNext ==
  /\ Ok
  /\ iter_st = "live"
  /\ IterNext

InitFuzz ==
  /\ width = SizeBits
  /\ variant = "byte"
  /\ q = Create(variant, FuzzCapacity)
  /\ res = Done("create", <<FuzzCapacity>>, Returned(<<>>))
  /\ fres = res
  /\ iter = ZeroIter
  /\ iter_st = "none"
  /\ iter_views = <<>>
  /\ fifo = <<>>
  /\ src = <<>>
  /\ fresh = <<>>
  /\ npush = 0
  /\ stream = <<>>

\* between two steps of the iteration loop no other command runs
NextFuzz ==
  \/ FuzzPush
  \/ FuzzPushCut
  \/ FuzzPop
  \/ FuzzPopItem
  \/ FuzzPeek
  \/ FuzzPeekItem
  \/ FuzzPeekSize
  \/ FuzzItemCount
  \/ FuzzIterInit
  \/ FuzzIterNext

SpecFuzz == InitFuzz /\ [][NextFuzz]_vars

---------------------------------------------------------------------------
(* Properties *)

\* C1: the length-preserving queue is a FIFO of the pushed payloads: whenever
\* a pushed item has not been popped yet, peek_item(0) reports the length and
\* the bytes of the oldest such item (the one the next pop_item is to remove),
\* and pop_item returns the length of that item.
C1_FifoOrder ==
  /\ [](variant = "item" /\ Ok /\ fifo # <<>> =>
          \A p \in ANB_fifoslab_peek_item(q, 0, TRUE) :
             /\ p.out_size = Written(Len(Head(fifo)))
             /\ p.view = Head(fifo))
  /\ [][variant = "item" /\ res'.op = "pop_item" /\ fifo # <<>> =>
          res'.ret = <<Len(Head(fifo))>>]_vars

\* C2: in the length-preserving queue every live entry reports the length L
\* of the push that made it through peek_item and through the iterator,
\* pop_item returns L for it, and the push made size() grow by RoundUp(L).
C2_LengthRoundTrip ==
  /\ [](variant = "item" /\ Ok =>
          /\ \A n \in 0..(Len(src) - 1) :
               \A p \in ANB_fifoslab_peek_item(q, n, TRUE) :
                  p.out_size = Written(Len(src[n + 1]))
          /\ \A k \in 1..Len(iter_views) :
               iter_views[k][2] = Written(Len(src[k])))
  /\ [][variant = "item" /\ res'.fault = "none" =>
          /\ res'.op = "pop_item" /\ src # <<>> => res'.ret = <<Len(Head(src))>>
          /\ res'.op = "push" =>
               ANB_fifoslab_size(q') = ANB_fifoslab_size(q) + RoundUp(Len(res'.arg[1]))]_vars

\* a 17 byte item was pushed, is reported as 17 bytes and takes 32
C2_Witness ==
  /\ variant = "item" /\ res.op = "push" /\ Ok
  /\ Len(res.arg[1]) = 17
  /\ ANB_fifoslab_size(q) = 32
  /\ \E p \in ANB_fifoslab_peek_item(q, 0, TRUE) : p.out_size = Written(17)

\* C3: the stored lengths of the live index entries add up to the live bytes.
C3_IndexSumIsLiveBytes ==
  Ok => SumIndex(q, q.index_read, q.index_write) = q.write_pos - q.read_pos

\* a byte-level pop ended inside an entry, with entries left
C3_Witness ==
  /\ variant = "byte" /\ res.op = "pop" /\ res.ret = <<24>>
  /\ q.read_pos % MaxAlign # 0
  /\ ANB_fifoslab_item_count_raw(q) >= 2

\* C4: the cursors are ordered, 0 <= read_pos <= write_pos <= size and
\* index_read <= index_write <= index_cap; no push wrote a byte outside the
\* allocated buffer or an entry outside the allocated index.
C4_CursorsInBounds ==
  /\ 0 <= q.read_pos /\ q.read_pos <= q.write_pos /\ q.write_pos <= q.size
  /\ 0 <= q.index_read /\ q.index_read <= q.index_write
  /\ q.index_write <= q.index_cap
  /\ Hi(q.data) <= q.size
  /\ Hi(q.index) <= q.index_cap
  /\ variant = "item" => Hi(q.pad_index) <= q.index_cap
  /\ res.fault # "heap"

\* a push found the index full and recorded its entry in the doubled index
C4_Witness ==
  /\ res.op = "push" /\ Ok
  /\ q.index_cap = 2 * ANB_FS_INITIAL_INDEX_CAP
  /\ q.index_write = ANB_FS_INITIAL_INDEX_CAP + 1
  /\ q.write_pos = q.size

\* C5: when a pop_item or a successful pop(n) has left no live bytes
\* (read_pos = write_pos), the four cursors read_pos, write_pos, index_read
\* and index_write are 0, and item_count() and size() are 0.
C5_DrainReset ==
  /\ Ok
  /\ res.op = "pop_item" \/ (res.op = "pop" /\ res.ret # <<0>>)
  /\ q.read_pos = q.write_pos
  => /\ q.read_pos = 0 /\ q.write_pos = 0
     /\ q.index_read = 0 /\ q.index_write = 0
     /\ ItemCount(variant, q) = 0
     /\ LiveBytes(variant, q) = 0

\* a byte-level pop took the last live bytes after two pushes
C5_Witness ==
  /\ variant = "byte" /\ res.op = "pop" /\ res.ret = <<16>>
  /\ npush = 2
  /\ Hi(q.index) = 2
  /\ q.write_pos = 0 /\ q.index_write = 0

\* C6: from the moment the queue has been drained, every call returns what
\* the same call returns on a queue that went through the same calls since
\* it was created with the same capacity (item_count, size, the offsets,
\* lengths and bytes of the views, the pop return values).
C6_DrainedIsFresh ==
  fresh # <<>> => res = fres

\* a 17 byte item pushed after the drain is popped again
C6_Witness ==
  /\ fresh # <<>>
  /\ variant = "item"
  /\ res.op = "pop_item" /\ res.ret = <<17>>
  /\ Hi(q.data) > Hi(fresh[1].data)

\* C7: an iterator that started from zero and is stepped without any other
\* call in between has yielded, as its k-th view, the offset and the length
\* peek_item(k - 1) returns, never more views than there are live items, and
\* exactly item_count() views when it reports the end.
C7_IteratorIsPeekItem ==
  Ok /\ iter_st # "none" =>
    /\ Len(iter_views) <= ItemCount(variant, q)
    /\ \A k \in 1..Len(iter_views) :
         \A p \in PeekItemOf(variant, q, k - 1, TRUE) :
            iter_views[k] = <<p.ret, p.out_size>>
    /\ iter_st # "live" => Len(iter_views) = ItemCount(variant, q)

\* an iterator started after a pop went over the two items left
C7_Witness ==
  /\ iter_st = "done"
  /\ Len(iter_views) = 2
  /\ q.index_read > 0
  /\ iter_views[2][1] # iter_views[1][1]

\* C8: once peek_item_iter has returned NULL, a further call with the same
\* iterator on the same queue returns NULL and leaves _item_idx and
\* _byte_offset as they were.
C8_IteratorStaysDone ==
  [][res'.op = "peek_item_iter" /\ iter_st \in {"done", "done_again"} =>
       /\ res'.ret = NULL
       /\ iter' = iter
       /\ q' = q]_vars

\* an iterator over two items was stepped again after it had reported the end
C8_Witness ==
  /\ iter_st = "done_again"
  /\ iter._item_idx = 2
  /\ res.op = "peek_item_iter" /\ res.ret = NULL

\* C9: peek_item(n) with n >= item_count() returns NULL, is not fatal and
\* leaves the queue as it was, whether out_size is NULL or not.
C9_PeekItemOutOfRange ==
  [][res'.op = "peek_item" /\ res'.arg[1] >= ItemCount(variant, q) =>
       /\ res'.ret = NULL
       /\ res'.fault = "none"
       /\ q' = q]_vars

\* C10: pop_item on a queue without live items returns 0, is not fatal and
\* leaves the cursors, the capacities and the stored bytes as they were.
C10_PopItemEmpty ==
  [][res'.op = "pop_item" /\ ItemCount(variant, q) = 0 =>
       /\ res'.ret = <<0>>
       /\ res'.fault = "none"
       /\ q' = q]_vars

\* pop_item was called on a queue that was drained before
C10_Witness ==
  /\ res.op = "pop_item" /\ res.ret = <<0>>
  /\ npush > 0
  /\ Hi(q.data) > 0
  /\ q.index_write = 0
  /\ fres.op = "pop_item" /\ fresh # <<>>

\* C11: a pop_item on a queue of k >= 1 items leaves k - 1 items and takes
\* the stored aligned length of the first item, and nothing else, off size().
C11_PopItemRemovesOne ==
  [][res'.op = "pop_item" /\ ItemCount(variant, q) >= 1 =>
       /\ ItemCount(variant, q') = ItemCount(variant, q) - 1
       /\ LiveBytes(variant, q') =
            LiveBytes(variant, q) - Load(q.index, q.index_read, UNSET)]_vars

\* the offset in queue->data just after the bytes of the k-th live entry,
\* counted back from write_pos over the pushes that made the later entries
EndOf(k) ==
  LET RECURSIVE After(_)
      After(j) == IF j > Len(src) THEN 0 ELSE RoundUp(Len(src[j])) + After(j + 1)
  IN  q.write_pos - After(k + 1)

\* C12: the bytes between the end of a live item's payload and the next
\* multiple of the alignment unit are zero, from the push on and for as long
\* as the item is live.
C12_PaddingIsZero ==
  Ok =>
    \A k \in 1..Len(src) :
       \A i \in (EndOf(k) - RoundUp(Len(src[k])) + Len(src[k]))..(EndOf(k) - 1) :
          ByteAt(q, i) = 0

\* a 17 byte item stayed live over a pop_item and a later 17 byte push
C12_Witness ==
  /\ Ok /\ res.op = "push"
  /\ Len(src) = 2
  /\ Len(src[1]) = 17 /\ Len(src[2]) = 17
  /\ q.read_pos > 0

\* C13: a push of aligned length a leaves size alone when write_pos + a fits,
\* and otherwise makes it the least old_size * 2^k (k >= 1) that is
\* >= write_pos + a; the bytes pushed end within size, and size is the
\* initial size times a power of two.
C13_GrowthByDoubling ==
  /\ [](Ok => /\ q.write_pos <= q.size
              /\ \E s \in InitialSizes, k \in 0..width : q.size = s * 2^k)
  /\ [][res'.op = "push" /\ res'.fault = "none" =>
          LET need == q.write_pos + RoundUp(Len(res'.arg[1]))
          IN  /\ need <= q'.size
              /\ need <= q.size => q'.size = q.size
              /\ need > q.size =>
                   \E k \in 1..width :
                      /\ q'.size = q.size * 2^k
                      /\ q.size * 2^(k - 1) < need]_vars

\* the first push, of 17 bytes, took a buffer of 1 byte to 32 bytes
C13_Witness ==
  /\ Ok /\ res.op = "push"
  /\ npush = 1 /\ Len(res.arg[1]) = 17
  /\ q.size = 32 /\ q.write_pos = 32

\* C14: a push, whether or not it grows the buffer or the index, leaves
\* every item that was live before it as it was: peek_item(i) returns the
\* same offset (read_pos does not move), the same length and the same bytes.
C14_GrowthKeepsItems ==
  [][res'.op = "push" /\ res'.fault = "none" =>
       /\ q'.read_pos = q.read_pos
       /\ ItemCount(variant, q') = ItemCount(variant, q) + 1
       /\ \A i \in 0..(ItemCount(variant, q) - 1) :
            PeekItemOf(variant, q', i, TRUE) = PeekItemOf(variant, q, i, TRUE)]_vars

\* a push grew the buffer and the index at once, with two items live before it
C14_Witness ==
  /\ Ok /\ res.op = "push"
  /\ q.index_cap = 2 * ANB_FS_INITIAL_INDEX_CAP
  /\ q.index_write = ANB_FS_INITIAL_INDEX_CAP + 1
  /\ ItemCount(variant, q) = 3
  /\ Len(res.arg[1]) = 17
  /\ q.write_pos = WarmItems * MaxAlign + 3 * MaxAlign
  /\ q.size = 2 * (WarmItems + 1) * MaxAlign

\* C15: with a size_t of `width` bits, a push ends fatally exactly when the
\* capacity it requires, write_pos + round_up(n), is more than SIZE_MAX; every
\* other push completes, with write_pos + round_up(n) <= size and write_pos
\* advanced by round_up(n) without wrap-around.
C15_OverflowIsFatal ==
  [][res'.op = "push" =>
       LET need == q.write_pos + RoundUp(Len(res'.arg[1]))
       IN  /\ res'.fault = "assert" <=> need > SIZE_MAX
           /\ need <= SIZE_MAX =>
                /\ res'.fault = "none"
                /\ need <= q'.size
                /\ q'.write_pos = need]_vars

\* C16: the byte-level peek(n) returns the read position whenever n bytes
\* are live, returns NULL only when fewer than n bytes are live, and leaves
\* the queue as it was.
C16_PeekOriginal ==
  [][res'.op = "peek" =>
       LET n == res'.arg[1]
       IN  /\ n <= LiveBytes(variant, q) => res'.ret = Ptr(q.read_pos)
           /\ n > LiveBytes(variant, q) => res'.ret = NULL
           /\ q' = q]_vars

\* C16, with the case of n = 0: peek(n) returns the read position, with the
\* n live bytes behind it, when 1 <= n <= live bytes; it returns NULL when
\* n = 0 or fewer than n bytes are live; it leaves the queue as it was.
C16_Peek ==
  [][res'.op = "peek" =>
       LET n == res'.arg[1]
       IN  /\ n >= 1 /\ n <= LiveBytes(variant, q) =>
                /\ res'.ret = Ptr(q.read_pos)
                /\ res'.view = SubSeq(stream, 1, n)
           /\ n = 0 \/ n > LiveBytes(variant, q) => res'.ret = NULL
           /\ res'.fault = "none"
           /\ q' = q]_vars

\* peek(24) returned a view that starts inside an item, after a pop(24)
C16_Witness ==
  /\ res.op = "peek" /\ res.arg = <<24>>
  /\ res.ret = Ptr(24)
  /\ LiveBytes(variant, q) = 24


\* C17: the byte-level pop(n) returns 0 and changes no cursor and no index
\* entry when n exceeds the live bytes; otherwise it returns n and the
\* number of live bytes decreases by exactly n.
C17_PopBytes ==
  [][res'.op = "pop" =>
       LET n == res'.arg[1]
       IN  /\ res'.fault = "none"
           /\ n > LiveBytes(variant, q) => res'.ret = <<0>> /\ q' = q
           /\ n <= LiveBytes(variant, q) =>
                /\ res'.ret = <<n>>
                /\ LiveBytes(variant, q') = LiveBytes(variant, q) - n]_vars

\* pop(24) consumed one item and half of the next, pop(24) was then
\* refused, and the 8 bytes left are still there
C17_Witness ==
  /\ res.op = "pop" /\ res.arg = <<24>> /\ res.ret = <<0>>
  /\ LiveBytes(variant, q) = 8 /\ q.read_pos = 24
  /\ ItemCount(variant, q) = 1


\* C18: when the byte-level pop(n) is called with n equal to the sum of the
\* tracked lengths of the first k live items (k the number of items it takes
\* to cover n), exactly those k items are retired: item_count() decreases by
\* k, and peek_item(i) and the next pop_item report the length and the bytes
\* of the former items k + i and k.
C18_RawPopRetiresItems ==
  [][res'.op = "pop" =>
       LET n     == res'.arg[1]
           count == ItemCount(variant, q)
           Sum(k) == SumIndex(q, q.index_read, q.index_read + k)
           ks    == {k \in 0..count : Sum(k) = n}
           Seen(queue, i) ==
             {<<r.ret # NULL, r.out_size, r.view>> :
                r \in PeekItemOf(variant, queue, i, TRUE)}
       IN  ks # {} =>
             LET k == CHOOSE j \in ks : \A other \in ks : j <= other
             IN  /\ ItemCount(variant, q') = count - k
                 /\ \A i \in 0..(count - k - 1) : Seen(q', i) = Seen(q, k + i)
                 /\ count > k =>
                      ANB_fifoslab_pop_item_raw(q').ret
                        = Load(q.index, q.index_read + k, UNSET)]_vars


\* C19: the live bytes seen through the byte-level calls are the pushed
\* payloads, each followed by its zero padding, in push order and without
\* what has been consumed: peek_size() is their number, the bytes from the
\* read position on are these bytes, and a pop(n) that leaves bytes behind
\* moves the pointer peek returns forward by n.
C19_ByteStream ==
  /\ [](variant = "byte" /\ Ok =>
          /\ ANB_fifoslab_peek_size(q) = Len(stream)
          /\ View(q, Ptr(q.read_pos), Len(stream)) = stream
          /\ Len(stream) >= 1 =>
               ANB_fifoslab_peek(q, Len(stream)) = Ptr(q.read_pos))
  /\ [][res'.op = "pop" /\ res'.ret # <<0>> /\ LiveBytes(variant, q') > 0 =>
          LET n == res'.arg[1]
          IN  ANB_fifoslab_peek(q', 1) = Ptr(ANB_fifoslab_peek(q, 1)[1] + n)]_vars

\* two pushes of 17 bytes, then pop(24) and pop(16): the front is now the
\* ninth byte of the second payload
C19_Witness ==
  /\ variant = "byte" /\ Ok
  /\ res.op = "pop" /\ res.arg = <<16>> /\ res.ret = <<16>>
  /\ q.read_pos = 40 /\ Len(stream) = 24
  /\ stream[1] = 2 /\ stream[9] = 2 /\ stream[10] = 0


\* the sizes peek_item, peek_item_iter and pop_item report for the live
\* items of the byte-level queue, first item first
ReportedSizes(queue) ==
  [i \in 1..ANB_fifoslab_item_count_raw(queue) |->
     Load(queue.index, queue.index_read + i - 1, UNSET)]

\* C20: in the byte-level variant every size reported by peek_item,
\* peek_item_iter and pop_item is a multiple of the alignment unit.
C20_SizesAligned ==
  variant = "byte" /\ Ok =>
    /\ \A i \in 1..Len(ReportedSizes(q)) :
         /\ ReportedSizes(q)[i] % MaxAlign = 0
         /\ ReportedSizes(q)[i] = RoundUp(Len(src[i]))
    /\ res.op \in {"peek_item", "peek_item_iter"} /\ res.out_size # NotWritten =>
         res.out_size[1] % MaxAlign = 0
    /\ res.op = "pop_item" => res.ret[1] % MaxAlign = 0

\* the bytes the pushes of payloads s occupy
RECURSIVE PaddedLen(_)
PaddedLen(s) == IF s = <<>> THEN 0 ELSE RoundUp(Len(Head(s))) + PaddedLen(Tail(s))

\* C20, with the partial pop: every reported size is round_up(data_len) of
\* the push that created the item, less the bytes that byte-level pops have
\* consumed from that item. Only the first live item can have been consumed
\* in part, so every other size is aligned, and so is the first when no pop
\* ended inside it.
C20_SizesTrackPushes ==
  /\ [](variant = "byte" /\ Ok =>
          LET sizes == ReportedSizes(q)
              eaten == PaddedLen(src) - ANB_fifoslab_peek_size(q)
          IN  /\ Len(sizes) = Len(src)
              /\ \A i \in 2..Len(sizes) : sizes[i] = RoundUp(Len(src[i]))
              /\ Len(sizes) >= 1 =>
                   /\ sizes[1] = RoundUp(Len(src[1])) - eaten
                   /\ eaten >= 0
                   /\ eaten = 0 \/ eaten < RoundUp(Len(src[1]))
              /\ res.op = "peek_item" /\ res.out_size # NotWritten =>
                   res.out_size[1] = sizes[res.arg[1] + 1]
              /\ res.op = "peek_item_iter" /\ res.out_size # NotWritten =>
                   res.out_size[1] = sizes[iter._item_idx])
  /\ [][variant = "byte" /\ res'.op = "pop_item" /\ ItemCount(variant, q) >= 1 =>
          res'.ret[1] = ReportedSizes(q)[1]]_vars

\* pushes of 16, 16 and 17 bytes, pop(24), peek_item(0): the first live item
\* reports the 8 bytes left of it, the next one its aligned size
C20_Witness ==
  /\ variant = "byte" /\ Ok
  /\ res.op = "peek_item" /\ res.arg[1] = 0 /\ res.out_size = <<8>>
  /\ ReportedSizes(q) = <<8, 32>>
  /\ Len(src) = 2 /\ Len(src[1]) = 16 /\ Len(src[2]) = 17


\* C21: in the length-preserving variant read_pos, write_pos and the buffer
\* offset of every view returned by peek_item and peek_item_iter are
\* multiples of the alignment unit.
C21_ItemOffsetsAligned ==
  variant = "item" /\ Ok =>
    /\ q.read_pos % MaxAlign = 0
    /\ q.write_pos % MaxAlign = 0
    /\ res.op \in {"peek_item", "peek_item_iter"} /\ res.ret # NULL =>
         res.ret[1] % MaxAlign = 0
    /\ \A n \in 0..(ItemCount(variant, q) - 1) :
         \A r \in PeekItemOf(variant, q, n, TRUE) : r.ret[1] % MaxAlign = 0

\* pushes of 17, 17 and 16 bytes, pop_item, peek_item(1): the view of the
\* third item starts at offset 64, behind two items of odd length
C21_Witness ==
  /\ variant = "item" /\ Ok
  /\ res.op = "peek_item" /\ res.ret = Ptr(64)
  /\ q.read_pos = 32 /\ q.write_pos = 80


\* C22: in the byte-level variant, after any mix of push, pop(n) and
\* pop_item, the buffer offset of every view returned by peek_item,
\* peek_item_iter and peek is a multiple of the alignment unit.
C22_ViewsAligned ==
  variant = "byte" /\ Ok =>
    (res.op \in {"peek", "peek_item", "peek_item_iter"} /\ res.ret # NULL =>
       res.ret[1] % MaxAlign = 0)

\* C22, with the partial pop: write_pos and the offset of the view of every
\* live item but the first are multiples of the alignment unit; the views of
\* peek, of peek_item(0) and of the iterator's first step start at read_pos,
\* which is off a multiple of the alignment unit by the bytes that byte-level
\* pops have consumed from the first live item.
C22_ViewsAlignedButFirst ==
  variant = "byte" /\ Ok =>
    LET eaten == PaddedLen(src) - ANB_fifoslab_peek_size(q)
    IN  /\ q.write_pos % MaxAlign = 0
        /\ q.read_pos % MaxAlign = eaten % MaxAlign
        /\ \A n \in 0..(ItemCount(variant, q) - 1) :
             \A r \in PeekItemOf(variant, q, n, TRUE) :
               IF n = 0 THEN r.ret = Ptr(q.read_pos)
                        ELSE r.ret[1] % MaxAlign = 0
        /\ res.op = "peek" /\ res.ret # NULL => res.ret = Ptr(q.read_pos)
        /\ res.op = "peek_item" /\ res.ret # NULL =>
             IF res.arg[1] = 0 THEN res.ret = Ptr(q.read_pos)
                               ELSE res.ret[1] % MaxAlign = 0
        /\ res.op = "peek_item_iter" /\ res.ret # NULL =>
             IF iter._item_idx = 1 THEN res.ret = Ptr(q.read_pos)
                                   ELSE res.ret[1] % MaxAlign = 0

\* pushes of 16, 16 and 17 bytes, pop(24), peek_item(1): read_pos is 24, the
\* view of the item behind the shrunk one starts at offset 32
C22_Witness ==
  /\ variant = "byte" /\ Ok
  /\ res.op = "peek_item" /\ res.arg[1] = 1 /\ res.ret = Ptr(32)
  /\ q.read_pos = 24


\* C23: every public operation called with a null handle, create called
\* with initial capacity 0, and push called with a null data pointer end in
\* a failed assertion instead of returning to the caller.
C23_PreconditionsFatal ==
  "bad" \in DOMAIN res => res.fault = "assert"

\* C23, with the calls that accept a null handle: destroy(NULL) does nothing
\* and returns; the byte-level peek(NULL, n) returns NULL and pop(NULL, n)
\* returns 0; every other call with a null handle, create(0) and push with a
\* null data pointer end in a failed assertion.
C23_PreconditionsFatalButNullSafe ==
  "bad" \in DOMAIN res =>
    IF res.bad = "queue" /\ res.op \in {"destroy", "peek", "pop"}
      THEN /\ res.fault = "none"
           /\ res.ret = IF res.op = "pop" THEN <<0>> ELSE NULL
      ELSE res.fault = "assert"

\* push_item(NULL, data, len) on the length-preserving variant, with a queue
\* that holds two items, ended in a failed assertion
C23_Witness ==
  /\ "bad" \in DOMAIN res
  /\ variant = "item" /\ res.op = "push" /\ res.bad = "queue"
  /\ res.fault = "assert"
  /\ ItemCount(variant, q) = 2


\* C24: in every run of the fuzz harness no operation faults, and every
\* non-NULL pointer returned by peek, peek_item or peek_item_iter addresses
\* a byte of the live region [read_pos, write_pos) of the buffer.
C24_FuzzHarnessSafe ==
  /\ Ok
  /\ q.read_pos <= q.write_pos /\ q.write_pos <= q.size
  /\ res.op \in {"peek", "peek_item", "peek_item_iter"} /\ res.ret # NULL =>
       /\ q.read_pos <= res.ret[1]
       /\ res.ret[1] < q.write_pos
       /\ ByteAt(q, res.ret[1]) # UNINIT

\* after a push that made the buffer grow and a pop that ended inside the
\* first item, the iteration's second step returned a pointer
C24_Witness ==
  /\ Ok /\ res.op = "peek_item_iter" /\ res.ret # NULL
  /\ iter._item_idx = 2
  /\ q.size > FuzzCapacity
  /\ q.read_pos = MaxAlign + 8


\* C25: the data capacity size and the index capacity index_cap never
\* decrease, and no pop, the one that triggers the drain reset included,
\* changes either of them.
C25_CapacityNeverShrinks ==
  [][/\ q'.size >= q.size
     /\ q'.index_cap >= q.index_cap
     /\ res'.op \in {"pop", "pop_item"} =>
          /\ q'.size = q.size
          /\ q'.index_cap = q.index_cap
          /\ Hi(q'.data) = Hi(q.data) /\ Hi(q'.index) = Hi(q.index)]_vars

\* a pop_item drained a queue whose buffer and index had both grown: the
\* cursors are back at 0 and both capacities are the grown ones
C25_Witness ==
  /\ Ok /\ res.op = "pop_item"
  /\ q.write_pos = 0 /\ q.index_write = 0
  /\ q.index_cap = 2 * ANB_FS_INITIAL_INDEX_CAP
  /\ q.size = 2 * (WarmItems + 1) * MaxAlign


\* C26: when the byte-level pop(n) ends strictly inside a live entry of
\* stored length a after consuming r of its bytes (0 < r < a), the entries
\* before it are retired and that entry is not: item_count() counts it, its
\* stored length is a - r, peek_item(0) returns a view that starts at the new
\* read_pos with size a - r, the next pop_item returns a - r, and the
\* entries behind it are as they were.
C26_PartialPopShrinks ==
  [][res'.op = "pop" /\ res'.ret # <<0>> =>
       LET n      == res'.arg[1]
           sizes  == ReportedSizes(q)
           Sum(j) == SumIndex(q, q.index_read, q.index_read + j)
           k      == CHOOSE j \in 0..Len(sizes) :
                       /\ Sum(j) <= n
                       /\ \A i \in 0..Len(sizes) : Sum(i) <= n => i <= j
           r      == n - Sum(k)
       IN  k < Len(sizes) /\ r > 0 =>
             LET a == sizes[k + 1]
             IN  /\ r < a
                 /\ ItemCount(variant, q') = Len(sizes) - k
                 /\ ReportedSizes(q') =
                      <<a - r>> \o SubSeq(sizes, k + 2, Len(sizes))
                 /\ q'.read_pos = q.read_pos + n
                 /\ {<<p.ret, p.out_size>> : p \in PeekItemOf(variant, q', 0, TRUE)}
                      = {<<Ptr(q'.read_pos), Written(a - r)>>}
                 /\ \A p \in PeekItemOf(variant, q', 0, TRUE) :
                      p.view = SubSeq(stream, n + 1, n + a - r)
                 /\ ANB_fifoslab_pop_item_raw(q').ret = a - r]_vars

\* pushes of 16, 17 and 16 bytes, pop(24): the first item is retired, the
\* second is left with 24 of its 32 bytes
C26_Witness ==
  /\ variant = "byte" /\ Ok
  /\ res.op = "pop" /\ res.ret = <<24>>
  /\ ReportedSizes(q) = <<24, 16>>
  /\ q.read_pos = 24


\* C27: a pop or pop_item after which data remains live moves no byte,
\* leaves write_pos, index_write and the capacities as they were and does not
\* move read_pos or index_read backwards; write_pos and read_pos decrease
\* only in a step that drains the queue and resets both to 0; and every push
\* of a positive length increases write_pos.
C27_NoCompaction ==
  [][/\ res'.op \in {"pop", "pop_item"} /\ q'.read_pos # q'.write_pos =>
          /\ q'.data = q.data
          /\ q'.write_pos = q.write_pos
          /\ q'.index_write = q.index_write
          /\ q'.size = q.size /\ q'.index_cap = q.index_cap
          /\ q'.read_pos >= q.read_pos
          /\ q'.index_read >= q.index_read
     /\ q'.write_pos < q.write_pos \/ q'.read_pos < q.read_pos =>
          /\ res'.op \in {"pop", "pop_item"}
          /\ q'.write_pos = 0 /\ q'.read_pos = 0
     /\ res'.op = "push" /\ res'.fault = "none" /\ Len(res'.arg[1]) > 0 =>
          q'.write_pos > q.write_pos]_vars

\* three pushes with a pop_item between them: one item is live, 16 bytes,
\* and write_pos is at 48
C27_Witness ==
  /\ Ok /\ res.op = "pop_item"
  /\ npush = 3
  /\ q.read_pos = 2 * MaxAlign /\ q.write_pos = 3 * MaxAlign
  /\ LiveBytes(variant, q) = MaxAlign
  /\ Hi(q.data) = 3 * MaxAlign


\* C28: peek_item, peek, size / peek_size and item_count leave every field
\* of the queue as it was, and peek_item_iter changes nothing but the
\* caller's iterator, whether it returns a view or NULL.
C28_PeeksDoNotMutate ==
  [][res'.op \in {"peek_item", "peek", "size", "item_count", "peek_item_iter"} =>
       q' = q]_vars

\* an iteration step returned NULL on a queue that holds two items behind a
\* consumed one
C28_Witness ==
  /\ Ok /\ res.op = "peek_item_iter" /\ res.ret = NULL
  /\ iter._item_idx = 2
  /\ q.index_read = 1 /\ q.index_write = 3
  /\ q.read_pos > 0


\* C29: the index capacity starts at 64 slots, and a push doubles it exactly
\* when index_write = index_cap before the entry is appended, whatever
\* happens to the data capacity: the data part of the push leaves the index
\* and its capacity alone, the index part leaves the buffer and its capacity
\* alone, and the entries that were live keep their aligned length and
\* their padding.
C29_IndexGrowsOnItsOwn ==
  /\ [](/\ res.op = "create" => q.index_cap = ANB_FS_INITIAL_INDEX_CAP
        /\ Ok => /\ q.index_write <= q.index_cap
                 /\ \E k \in 0..width : q.index_cap = ANB_FS_INITIAL_INDEX_CAP * 2^k)
  /\ [][res'.op = "push" /\ res'.fault = "none" =>
          LET mid  == PushData(q, res'.arg[1]).queue
              live == q.index_read..(q.index_write - 1)
          IN  /\ mid.index_cap = q.index_cap
              /\ mid.index = q.index
              /\ mid.index_write = q.index_write
              /\ q'.size = mid.size
              /\ q'.data = mid.data
              /\ q'.write_pos = mid.write_pos
              /\ q'.index_cap = IF q.index_write = q.index_cap
                                  THEN 2 * q.index_cap
                                  ELSE q.index_cap
              /\ \A i \in live : Load(q'.index, i, UNSET) = Load(q.index, i, UNSET)
              /\ variant = "item" =>
                   /\ mid.pad_index = q.pad_index
                   /\ \A i \in live : Load(q'.pad_index, i, UNINIT)
                                        = Load(q.pad_index, i, UNINIT)]_vars

\* the 65th push on a queue created with 24 bytes: the index has grown to
\* 128 slots, the buffer of 1536 bytes has not grown
C29_Witness ==
  /\ Ok /\ res.op = "push"
  /\ q.index_write = ANB_FS_INITIAL_INDEX_CAP + 1
  /\ q.index_cap = 2 * ANB_FS_INITIAL_INDEX_CAP
  /\ q.size = 24 * 2^6
  /\ ItemCount(variant, q) = 3


\* C30: in the length-preserving variant each live index entry has
\* 0 <= pad < alignment unit and pad <= aligned_len, so the reported length
\* aligned_len - pad does not underflow and is the pushed length, and pad
\* fits the 8-bit slot it is stored in.
C30_PadInRange ==
  variant = "item" /\ Ok =>
    \A n \in 0..(ItemCount(variant, q) - 1) :
      LET aligned_len == Load(q.index, q.index_read + n, UNSET)
          pad         == Load(q.pad_index, q.index_read + n, UNINIT)
      IN  /\ 0 <= pad /\ pad < MaxAlign /\ pad < 2^8
          /\ pad <= aligned_len
          /\ aligned_len % MaxAlign = 0
          /\ aligned_len - pad = Len(src[n + 1])
          /\ \A r \in PeekItemOf(variant, q, n, TRUE) :
               r.out_size = Written(aligned_len - pad)

\* pushes of 16 and 17 bytes, pop_item, push of 0 bytes: the live entries
\* are (32, 15) and (0, 0)
C30_Witness ==
  /\ variant = "item" /\ Ok /\ res.op = "push"
  /\ q.index_read = 1 /\ q.index_write = 3
  /\ Load(q.index, 1, UNSET) = 2 * MaxAlign
  /\ Load(q.pad_index, 1, UNINIT) = MaxAlign - 1
  /\ Load(q.index, 2, UNSET) = 0
  /\ Load(q.pad_index, 2, UNINIT) = 0


\* C31: no operation makes write_pos, read_pos, index_write or index_read
\* smaller than it was before the operation.
C31_CursorsMonotonic ==
  [][/\ q'.write_pos >= q.write_pos
     /\ q'.read_pos >= q.read_pos
     /\ q'.index_write >= q.index_write
     /\ q'.index_read >= q.index_read]_vars

\* C31, with the reset: an operation makes one of the four cursors smaller
\* only if it is a pop or pop_item that consumes the last live byte (read_pos
\* reaches write_pos), and it then sets all four to 0; every other operation
\* leaves each cursor where it was or moves it forward.
C31_CursorsMonotonicButReset ==
  [][\/ /\ q'.write_pos >= q.write_pos
        /\ q'.read_pos >= q.read_pos
        /\ q'.index_write >= q.index_write
        /\ q'.index_read >= q.index_read
     \/ /\ res'.op \in {"pop", "pop_item"}
        /\ q.write_pos - q.read_pos =
             IF res'.op = "pop" THEN res'.arg[1]
                                ELSE Load(q.index, q.index_read, UNSET)
        /\ q'.write_pos = 0 /\ q'.read_pos = 0
        /\ q'.index_write = 0 /\ q'.index_read = 0]_vars

\* the second of two pushes was popped as the last live item: the four
\* cursors, which stood at 32, 16, 2 and 1, are 0
C31_Witness ==
  /\ Ok /\ res.op = "pop_item" /\ res.ret = <<MaxAlign>>
  /\ npush = 2 /\ Hi(q.data) = 2 * MaxAlign /\ Hi(q.index) = 2
  /\ q.write_pos = 0 /\ q.read_pos = 0
  /\ q.index_write = 0 /\ q.index_read = 0


\* C32: for an iterator that started zeroed, on a queue that is not changed
\* meanwhile, after k steps that returned a view _item_idx = k and
\* _byte_offset is the sum of the aligned lengths of the first k live
\* items; when the iterator is exhausted _item_idx = item_count() and
\* _byte_offset = size(); and every view it returned lies inside
\* [read_pos, write_pos].
C32_IteratorPosition ==
  iter_st \in {"live", "done", "done_again"} /\ Ok =>
    LET k == Len(iter_views)
    IN  /\ iter._item_idx = k
        /\ k <= ItemCount(variant, q)
        /\ iter._byte_offset = SumIndex(q, q.index_read, q.index_read + k)
        /\ iter_st # "live" =>
             /\ iter._item_idx = ItemCount(variant, q)
             /\ iter._byte_offset = LiveBytes(variant, q)
        /\ \A j \in 1..k :
             LET ptr  == iter_views[j][1][1]
                 size == iter_views[j][2][1]
             IN  /\ q.read_pos <= ptr
                 /\ ptr + size <= q.write_pos
                 /\ ptr = q.read_pos + SumIndex(q, q.index_read, q.index_read + j - 1)

\* the iterator is exhausted after two views, on a queue whose first item
\* has been popped: the live items take 16 and 32 bytes
C32_Witness ==
  /\ Ok /\ iter_st = "done" /\ Len(iter_views) = 2
  /\ q.read_pos = 2 * MaxAlign
  /\ iter._item_idx = 2 /\ iter._byte_offset = 3 * MaxAlign


\* C33: item_count() = 0 if and only if size() = 0: the item index and the
\* byte store are empty together.
C33_EmptyTogether ==
  Ok => (ItemCount(variant, q) = 0 <=> LiveBytes(variant, q) = 0)

\* C34: a pop_item called with item_count() >= 1 returns a length that is
\* not 0 and removes an item, so that 0 is returned by the empty queue only
\* and a loop that pops until pop_item returns 0 ends with no live item.
C34_PopItemZeroMeansEmpty ==
  [][res'.op = "pop_item" =>
       /\ ItemCount(variant, q) >= 1 => res'.ret # <<0>>
       /\ res'.ret = <<0>> => ItemCount(variant, q') = 0]_vars

===========================================================================
